---- MODULE Spec2Model ----
(***************************************************************************)
(* State-machine model of get_current_name.py: the input loader            *)
(* (read_species_list), the batcher (batch) and the batch resolver         *)
(* (get_current_names_batch) that classifies every queried name against    *)
(* the MycoBank authority.                                                 *)
(*                                                                         *)
(* A string is a tuple of one-character strings, so that strip(), lower(), *)
(* the substring test and the prefix test are computed, not assumed.       *)
(***************************************************************************)
EXTENDS Integers, Sequences, FiniteSets, Bags, TLC

(***************************************************************************)
(* Bounds of the model.                                                    *)
(***************************************************************************)
MaxLines == 4
MaxQueries == 2
MaxBatch == 2
MaxRecords == 2

(***************************************************************************)
(* Strings.                                                                *)
(***************************************************************************)
Whitespace == {" ", "\t"}

\* str.lower() on the alphabet of the model
LowerChar(c) ==
    CASE c = "A" -> "a"
      [] c = "B" -> "b"
      [] OTHER -> c

Lower(s) == [i \in 1..Len(s) |-> LowerChar(s[i])]

RECURSIVE LStrip(_)
LStrip(s) ==
    IF s # <<>> /\ Head(s) \in Whitespace THEN LStrip(Tail(s)) ELSE s

RECURSIVE RStrip(_)
RStrip(s) ==
    IF s # <<>> /\ s[Len(s)] \in Whitespace
    THEN RStrip(SubSeq(s, 1, Len(s) - 1))
    ELSE s

\* str.strip()
Strip(s) == RStrip(LStrip(s))

\* p is a prefix of s
StartsWith(s, p) ==
    /\ Len(p) <= Len(s)
    /\ SubSeq(s, 1, Len(p)) = p

\* Python's `sub in s` on strings
Contains(s, sub) ==
    \E i \in 0..(Len(s) - Len(sub)) : SubSeq(s, i + 1, i + Len(sub)) = sub

(***************************************************************************)
(* read_species_list                                                       *)
(***************************************************************************)
VARIABLES
    input_lines,          \* the lines of the species file, newline removed
    excluded_species,     \* the user's exclusion list (stripped, non-blank)
    line_no,              \* number of lines the loop has consumed
    species_to_check,     \* accepted names, in the order appended
    excluded_rows,        \* <<name, reason>> rows, in the order appended
    excluded_user_count,
    excluded_ambig_count,
    excluded_file,        \* the exclusion side file: [written, rows]
    rpc                   \* "reading" | "returned"

readVars == <<input_lines, excluded_species, line_no, species_to_check,
              excluded_rows, excluded_user_count, excluded_ambig_count,
              excluded_file, rpc>>

excluded_characters ==
    << <<"[">>, <<"]">>, <<"s", "p", ".">>, <<"c", "f", ".">>,
       <<"a", "f", "f", ".">> >>

\* IsAmbiguous with all() in place of any()
IsAmbiguous_All(sp) ==
    \A j \in 1..Len(excluded_characters) : Contains(sp, excluded_characters[j])

\* any(char in sp for char in excluded_characters)
IsAmbiguous(sp) ==
    \E j \in 1..Len(excluded_characters) : Contains(sp, excluded_characters[j])

\* the lines a species file is drawn from
LinePool ==
    { <<>>, <<" ">>, <<"a">>, <<" ", "a">>, <<"A">>,
      <<"a", " ", "s", "p", ".">>,
      <<"a", " ", "[", "c", "f", ".", "]">>, <<"c", "f", ".">>,
      <<"a", "f", "f", ".">>, <<"a", "]">> }

\* the entries a user exclusion list is drawn from
ExcludePool == { <<"a">>, <<"a", " ", "s", "p", ".">> }


SeqsUpTo(S, n) == UNION { [1..m -> S] : m \in 0..n }

(***************************************************************************)
(* get_current_names_batch: state                                          *)
(***************************************************************************)
VARIABLES
    species_list,         \* the query list handed to get_current_names_batch
    batch_size,           \* --batch-size
    db,                   \* the authority's records, in the order it lists them
    server_folds_case,    \* whether the authority's startWith ignores case
    resp_seq,             \* the authority's batch responses, in request order
    lookup_memo,          \* the authority's answer to the point lookup of an id
    pc,                   \* "idle" | "loop" | "batch" | "done" | "aborted"
    pos,                  \* names the generator of batch() has consumed
    species_batch,        \* the chunk the for loop is working on
    items,                \* data.get("items", []) of the current batch
    k,                    \* index in species_batch of the name to classify
    results,
    summary,
    processed_count,
    batches,              \* the chunks batch() has yielded so far
    requests,             \* batch requests issued: [names, kind]
    lookups,              \* point lookups issued: [row, id]
    progress,             \* processed_count at each print_progress call
    report,               \* the output file: [written, rows, run]
    run_no,               \* 1 for the first run, 2 for the rerun
    prev                  \* outcome of the first run: [pc, results, report]

runVars == <<species_list, batch_size, db, server_folds_case, resp_seq,
             lookup_memo, pc, pos, species_batch, items, k, results, summary,
             processed_count, batches, requests, lookups, progress, report,
             run_no, prev>>

vars == <<readVars, runVars>>

\* the value of a key the JSON record does not carry (Python's None)
Missing == -1

Ids == {0, 1, 2}

Statuses ==
    {"current", "not_current", "no_records", "no_valid", "no_current",
     "multiple_records", "error"}

NA == <<"N", "A">>
Unknown == <<"<", "u", "n", "k", "n", "o", "w", "n", ">">>

\* the name the authority files under an identifier
AcceptedName == [i \in Ids |-> <<"n", "a", "m", "e", ToString(i)>>]

Rec(n, st, i, c) == [name |-> n, nameStatus |-> st, id |-> i, currentNameId |-> c]

\* the records an authority state is drawn from
RecordPool ==
    { Rec(<<"a">>, "Legitimate", 1, 1),
      Rec(<<"A">>, "Legitimate", 1, 2),
      Rec(<<"a">>, "Legitimate", 2, 2),
      Rec(<<"a">>, "Illegitimate", 1, 1),
      Rec(<<"a", " ">>, "Invalid", 1, 1),
      Rec(<<"a">>, "Legitimate", 0, 0),
      Rec(<<"a">>, "Legitimate", 1, 0),
      Rec(<<"a">>, "Legitimate", 1, Missing),
      Rec(<<"a">>, "Legitimate", Missing, 1),
      Rec(<<"a", "b">>, "Legitimate", 1, 1) }

\* the names a query list is drawn from: stripped, non-blank, no marker
QueryPool == { <<"a">>, <<"A">> }

BatchResponses == {"ok", "error", "garbage", "no_items"}

LookupResponses ==
    { [status_code |-> 200, body |-> "named"],
      [status_code |-> 200, body |-> "object"],
      [status_code |-> 200, body |-> "garbage"],
      [status_code |-> 404, body |-> "object"],
      [status_code |-> 500, body |-> "garbage"] }

NoResponse == [status_code |-> 0, body |-> "unset"]

EmptySummary == [s \in Statuses |-> 0]

NoReport == [written |-> FALSE, rows |-> <<>>, run |-> 0]

NoPrev == [pc |-> "none", results |-> <<>>, report |-> NoReport]

Min(a, b) == IF a < b THEN a ELSE b

(***************************************************************************)
(* The authority (the external collaborator behind requests.get).          *)
(***************************************************************************)
\* "name startWith 'q'" as the authority evaluates it
ServerStartsWith(n, q) ==
    IF server_folds_case THEN StartsWith(Lower(n), Lower(q))
    ELSE StartsWith(n, q)

\* the items of a successful answer to the filter built from names
Answer(names) ==
    LET hit(r) == \E j \in 1..Len(names) : ServerStartsWith(r.name, names[j])
    IN  SelectSeq(db, hit)

\* data_current.get("name", "<unknown>")
LookupName(resp, id) ==
    IF resp.body = "named" THEN AcceptedName[id] ELSE Unknown

(***************************************************************************)
(* batch()                                                                 *)
(***************************************************************************)
\* list(islice(it, n)) with `it` having consumed p elements of s
Chunk(s, p, n) == SubSeq(s, p + 1, Min(p + n, Len(s)))

(***************************************************************************)
(* The classifier of get_current_names_batch.                              *)
(***************************************************************************)
ExcludedStatuses == {"Illegitimate", "Invalid"}

\* species_items: exact case-insensitive matches that are not excluded
SpeciesItems(its, species) ==
    LET keep(item) ==
            /\ Lower(Strip(item.name)) = Lower(Strip(species))
            /\ item.nameStatus \notin ExcludedStatuses
    IN  SelectSeq(its, keep)

\* any(sp.lower() in (item.get("name", "").lower() for item in items) ...)
NameListed(its, species) ==
    \E i \in 1..Len(its) : Lower(its[i].name) = Lower(species)

\* SameCurrentId with any() in place of all()
SameCurrentId_Any(matches) ==
    \E i \in 1..Len(matches) :
        matches[i].currentNameId = matches[1].currentNameId

\* all(cid == first_id for cid in current_ids)
SameCurrentId(matches) ==
    \A i \in 1..Len(matches) :
        matches[i].currentNameId = matches[1].currentNameId

\* `not current_id`: None and 0 are both falsy
Falsy(x) == x = Missing \/ x = 0

\* Canonical that takes the last match in place of the first
Canonical_Last(matches) == matches[Len(matches)]

\* item = species_items[0]
Canonical(matches) == matches[1]

\* the branch the classifier takes for species on the items of its batch
Outcome(its, species) ==
    LET m == SpeciesItems(its, species)
    IN  IF m = <<>>
        THEN (IF NameListed(its, species) THEN "no_valid" ELSE "no_records")
        ELSE IF Len(m) > 1 /\ ~SameCurrentId(m) THEN "multiple_records"
        ELSE IF Canonical(m).id = Missing THEN "key_error"
        ELSE IF Falsy(Canonical(m).currentNameId) THEN "no_current"
        ELSE IF Canonical(m).id = Canonical(m).currentNameId THEN "current"
        ELSE "not_current"

Row(q, st, n) == [query |-> q, status |-> st, current_name |-> n]

Bump(sm, st) == [sm EXCEPT ![st] = @ + 1]

Species == species_batch[k]

Matches == SpeciesItems(items, Species)

\* after a name: the next name of the batch, or back to the for loop
AdvanceName ==
    IF k < Len(species_batch)
    THEN /\ k' = k + 1
         /\ UNCHANGED <<pc, species_batch, items>>
    ELSE /\ pc' = "loop"
         /\ k' = 1
         /\ species_batch' = <<>>
         /\ items' = <<>>

\* Emit that inserts the row at the front of results
Emit_Prepend(st, n) ==
    /\ results' = <<Row(Species, st, n)>> \o results
    /\ summary' = Bump(summary, st)
    /\ processed_count' = processed_count + 1
    /\ progress' = Append(progress, processed_count + 1)

\* results.append, summary[status] += 1, processed_count += 1, print_progress
Emit(st, n) ==
    /\ results' = Append(results, Row(Species, st, n))
    /\ summary' = Bump(summary, st)
    /\ processed_count' = processed_count + 1
    /\ progress' = Append(progress, processed_count + 1)

inputVars == <<species_list, batch_size, db, server_folds_case>>

(***************************************************************************)
(* read_species_list: actions                                              *)
(***************************************************************************)
CurrentLine == Strip(input_lines[line_no + 1])

ReadInit ==
    /\ input_lines \in SeqsUpTo(LinePool, MaxLines)
    /\ excluded_species \in SUBSET ExcludePool
    /\ line_no = 0
    /\ species_to_check = <<>>
    /\ excluded_rows = <<>>
    /\ excluded_user_count = 0
    /\ excluded_ambig_count = 0
    /\ excluded_file = [written |-> FALSE, rows |-> <<>>]
    /\ rpc = "reading"
    /\ species_list = <<>>
    /\ batch_size = 0
    /\ db = <<>>
    /\ server_folds_case = TRUE
    /\ resp_seq = <<>>
    /\ lookup_memo = [i \in Ids |-> NoResponse]
    /\ pc = "idle"
    /\ pos = 0
    /\ species_batch = <<>>
    /\ items = <<>>
    /\ k = 1
    /\ results = <<>>
    /\ summary = EmptySummary
    /\ processed_count = 0
    /\ batches = <<>>
    /\ requests = <<>>
    /\ lookups = <<>>
    /\ progress = <<>>
    /\ report = NoReport
    /\ run_no = 1
    /\ prev = NoPrev

\* `if not sp: continue`
SkipBlank ==
    /\ rpc = "reading"
    /\ line_no < Len(input_lines)
    /\ CurrentLine = <<>>
    /\ line_no' = line_no + 1
    /\ UNCHANGED <<input_lines, excluded_species, species_to_check,
                   excluded_rows, excluded_user_count, excluded_ambig_count,
                   excluded_file, rpc>>
    /\ UNCHANGED runVars

\* `if sp in excluded_species`
ExcludeUser ==
    /\ rpc = "reading"
    /\ line_no < Len(input_lines)
    /\ CurrentLine # <<>>
    /\ CurrentLine \in excluded_species
    /\ excluded_user_count' = excluded_user_count + 1
    /\ excluded_rows' = Append(excluded_rows, <<CurrentLine, "user_excluded">>)
    /\ line_no' = line_no + 1
    /\ UNCHANGED <<input_lines, excluded_species, species_to_check,
                   excluded_ambig_count, excluded_file, rpc>>
    /\ UNCHANGED runVars

\* ExcludeAmbiguous without the else branch: the line is queried as well
ExcludeAmbiguous_AlsoQueried ==
    /\ rpc = "reading"
    /\ line_no < Len(input_lines)
    /\ CurrentLine # <<>>
    /\ CurrentLine \notin excluded_species
    /\ IsAmbiguous(CurrentLine)
    /\ excluded_ambig_count' = excluded_ambig_count + 1
    /\ excluded_rows' = Append(excluded_rows, <<CurrentLine, "ambiguous">>)
    /\ species_to_check' = Append(species_to_check, CurrentLine)
    /\ line_no' = line_no + 1
    /\ UNCHANGED <<input_lines, excluded_species, excluded_user_count,
                   excluded_file, rpc>>
    /\ UNCHANGED runVars

\* `elif any(char in sp for char in excluded_characters)`
ExcludeAmbiguous ==
    /\ rpc = "reading"
    /\ line_no < Len(input_lines)
    /\ CurrentLine # <<>>
    /\ CurrentLine \notin excluded_species
    /\ IsAmbiguous(CurrentLine)
    /\ excluded_ambig_count' = excluded_ambig_count + 1
    /\ excluded_rows' = Append(excluded_rows, <<CurrentLine, "ambiguous">>)
    /\ line_no' = line_no + 1
    /\ UNCHANGED <<input_lines, excluded_species, species_to_check,
                   excluded_user_count, excluded_file, rpc>>
    /\ UNCHANGED runVars

\* AcceptLine that keeps only the first occurrence of a name
AcceptLine_Dedup ==
    /\ rpc = "reading"
    /\ line_no < Len(input_lines)
    /\ CurrentLine # <<>>
    /\ CurrentLine \notin excluded_species
    /\ ~IsAmbiguous(CurrentLine)
    /\ species_to_check' =
          IF \E i \in 1..Len(species_to_check) : species_to_check[i] = CurrentLine
          THEN species_to_check
          ELSE Append(species_to_check, CurrentLine)
    /\ line_no' = line_no + 1
    /\ UNCHANGED <<input_lines, excluded_species, excluded_rows,
                   excluded_user_count, excluded_ambig_count, excluded_file,
                   rpc>>
    /\ UNCHANGED runVars

\* `else: reason = None` ... `species_to_check.append(sp)`
AcceptLine ==
    /\ rpc = "reading"
    /\ line_no < Len(input_lines)
    /\ CurrentLine # <<>>
    /\ CurrentLine \notin excluded_species
    /\ ~IsAmbiguous(CurrentLine)
    /\ species_to_check' = Append(species_to_check, CurrentLine)
    /\ line_no' = line_no + 1
    /\ UNCHANGED <<input_lines, excluded_species, excluded_rows,
                   excluded_user_count, excluded_ambig_count, excluded_file,
                   rpc>>
    /\ UNCHANGED runVars

\* end of the file: write the side file if any row exists, and return
ReturnRead ==
    /\ rpc = "reading"
    /\ line_no = Len(input_lines)
    /\ excluded_file' = IF excluded_rows # <<>>
                        THEN [written |-> TRUE, rows |-> excluded_rows]
                        ELSE excluded_file
    /\ rpc' = "returned"
    /\ UNCHANGED <<input_lines, excluded_species, line_no, species_to_check,
                   excluded_rows, excluded_user_count, excluded_ambig_count>>
    /\ UNCHANGED runVars

ReadNext ==
    \/ SkipBlank
    \/ ExcludeUser
    \/ ExcludeAmbiguous
    \/ AcceptLine
    \/ ReturnRead

SpecRead == ReadInit /\ [][ReadNext]_vars

(***************************************************************************)
(* get_current_names_batch: actions                                        *)
(***************************************************************************)
Init ==
    /\ species_list \in SeqsUpTo(QueryPool, MaxQueries)
    /\ batch_size \in -1..MaxBatch
    /\ db \in SeqsUpTo(RecordPool, MaxRecords)
    /\ server_folds_case \in BOOLEAN
    /\ resp_seq = <<>>
    /\ lookup_memo = [i \in Ids |-> NoResponse]
    /\ pc = "loop"
    /\ pos = 0
    /\ species_batch = <<>>
    /\ items = <<>>
    /\ k = 1
    /\ results = <<>>
    /\ summary = EmptySummary
    /\ processed_count = 0
    /\ batches = <<>>
    /\ requests = <<>>
    /\ lookups = <<>>
    /\ progress = <<>>
    /\ report = NoReport
    /\ run_no = 1
    /\ prev = NoPrev
    /\ input_lines = <<>>
    /\ excluded_species = {}
    /\ line_no = 0
    /\ species_to_check = <<>>
    /\ excluded_rows = <<>>
    /\ excluded_user_count = 0
    /\ excluded_ambig_count = 0
    /\ excluded_file = [written |-> FALSE, rows |-> <<>>]
    /\ rpc = "idle"

\* the chunk the generator yields next
NextChunk == Chunk(species_list, pos, batch_size)

\* the authority answers the next batch request with `kind`: the answer it
\* gave to the same request of the first run, or any answer on a first run
Responds(kind) ==
    IF Len(requests) < Len(resp_seq)
    THEN /\ kind = resp_seq[Len(requests) + 1]
         /\ UNCHANGED resp_seq
    ELSE /\ kind \in BatchResponses
         /\ resp_seq' = Append(resp_seq, kind)

\* the authority answers the point lookup of id with resp
LookupResponds(id, resp) ==
    IF lookup_memo[id] # NoResponse
    THEN /\ resp = lookup_memo[id]
         /\ UNCHANGED lookup_memo
    ELSE /\ resp \in LookupResponses
         /\ lookup_memo' = [lookup_memo EXCEPT ![id] = resp]

\* the generator takes the chunk and the request for it is sent
Request(kind) ==
    /\ pos' = pos + Len(NextChunk)
    /\ batches' = Append(batches, NextChunk)
    /\ requests' = Append(requests, [names |-> NextChunk, kind |-> kind])

\* islice(it, n) raises ValueError for a negative n
BatchSizeError ==
    /\ pc = "loop"
    /\ batch_size < 0
    /\ pc' = "aborted"
    /\ UNCHANGED <<inputVars, resp_seq, lookup_memo, pos, species_batch,
                   items, k, results, summary, processed_count, batches,
                   requests, lookups, progress, report, run_no, prev>>
    /\ UNCHANGED readVars

\* Possibility 1: the batch request failed
ErrorRows(names) == [i \in 1..Len(names) |-> Row(names[i], "error", NA)]

\* BatchError with `break` in place of `continue`: the loop ends
BatchError_Break ==
    /\ pc = "loop"
    /\ batch_size >= 0
    /\ NextChunk # <<>>
    /\ Responds("error")
    /\ Request("error")
    /\ results' = results \o ErrorRows(NextChunk)
    /\ summary' = [summary EXCEPT !["error"] = @ + Len(NextChunk)]
    /\ processed_count' = processed_count + Len(NextChunk)
    /\ progress' = Append(progress, processed_count + Len(NextChunk))
    /\ report' = [written |-> TRUE, rows |-> results \o ErrorRows(NextChunk),
                  run |-> run_no]
    /\ pc' = "done"
    /\ UNCHANGED <<inputVars, lookup_memo, species_batch, items, k,
                   lookups, run_no, prev>>
    /\ UNCHANGED readVars

BatchError ==
    /\ pc = "loop"
    /\ batch_size >= 0
    /\ NextChunk # <<>>
    /\ Responds("error")
    /\ Request("error")
    /\ results' = results \o ErrorRows(NextChunk)
    /\ summary' = [summary EXCEPT !["error"] = @ + Len(NextChunk)]
    /\ processed_count' = processed_count + Len(NextChunk)
    /\ progress' = Append(progress, processed_count + Len(NextChunk))
    /\ UNCHANGED <<inputVars, lookup_memo, pc, species_batch, items, k,
                   lookups, report, run_no, prev>>
    /\ UNCHANGED readVars

\* response.json() raises on a body that is not JSON
BatchUnparseable ==
    /\ pc = "loop"
    /\ batch_size >= 0
    /\ NextChunk # <<>>
    /\ Responds("garbage")
    /\ Request("garbage")
    /\ pc' = "aborted"
    /\ UNCHANGED <<inputVars, lookup_memo, species_batch, items, k, results,
                   summary, processed_count, lookups, progress, report,
                   run_no, prev>>
    /\ UNCHANGED readVars

\* a 200 response: items = data.get("items", [])
BatchReceived ==
    /\ pc = "loop"
    /\ batch_size >= 0
    /\ NextChunk # <<>>
    /\ \E kind \in {"ok", "no_items"} :
        /\ Responds(kind)
        /\ Request(kind)
        /\ items' = IF kind = "ok" THEN Answer(NextChunk) ELSE <<>>
    /\ species_batch' = NextChunk
    /\ k' = 1
    /\ pc' = "batch"
    /\ UNCHANGED <<inputVars, lookup_memo, results, summary, processed_count,
                   lookups, progress, report, run_no, prev>>
    /\ UNCHANGED readVars

\* the generator is exhausted: write the TSV and return
WriteReport ==
    /\ pc = "loop"
    /\ batch_size >= 0
    /\ NextChunk = <<>>
    /\ report' = [written |-> TRUE, rows |-> results, run |-> run_no]
    /\ pc' = "done"
    /\ UNCHANGED <<inputVars, resp_seq, lookup_memo, pos, species_batch,
                   items, k, results, summary, processed_count, batches,
                   requests, lookups, progress, run_no, prev>>
    /\ UNCHANGED readVars

\* Possibility 2: no records or no valid items
NoMatch ==
    /\ pc = "batch"
    /\ Outcome(items, Species) \in {"no_valid", "no_records"}
    /\ Emit(Outcome(items, Species), NA)
    /\ AdvanceName
    /\ UNCHANGED <<inputVars, resp_seq, lookup_memo, pos, batches, requests,
                   lookups, report, run_no, prev>>
    /\ UNCHANGED readVars

\* Possibility 3: several records with differing current names
MultipleRecords ==
    /\ pc = "batch"
    /\ Outcome(items, Species) = "multiple_records"
    /\ Emit("multiple_records", NA)
    /\ AdvanceName
    /\ UNCHANGED <<inputVars, resp_seq, lookup_memo, pos, batches, requests,
                   lookups, report, run_no, prev>>
    /\ UNCHANGED readVars

\* _id = item["id"] raises KeyError
MissingId ==
    /\ pc = "batch"
    /\ Outcome(items, Species) = "key_error"
    /\ pc' = "aborted"
    /\ UNCHANGED <<inputVars, resp_seq, lookup_memo, pos, species_batch,
                   items, k, results, summary, processed_count, batches,
                   requests, lookups, progress, report, run_no, prev>>
    /\ UNCHANGED readVars

\* Possibility 4: no current name ID
NoCurrent ==
    /\ pc = "batch"
    /\ Outcome(items, Species) = "no_current"
    /\ Emit("no_current", NA)
    /\ AdvanceName
    /\ UNCHANGED <<inputVars, resp_seq, lookup_memo, pos, batches, requests,
                   lookups, report, run_no, prev>>
    /\ UNCHANGED readVars

\* IsCurrent that also makes the point lookup of the current-name identifier
IsCurrent_WithLookup ==
    /\ pc = "batch"
    /\ Outcome(items, Species) = "current"
    /\ Emit("current", Canonical(Matches).name)
    /\ lookups' = Append(lookups, [row |-> Len(results) + 1,
                                   id |-> Canonical(Matches).currentNameId])
    /\ AdvanceName
    /\ UNCHANGED <<inputVars, resp_seq, lookup_memo, pos, batches, requests,
                   report, run_no, prev>>
    /\ UNCHANGED readVars

\* Possibility 5: the name is the current name
IsCurrent ==
    /\ pc = "batch"
    /\ Outcome(items, Species) = "current"
    /\ Emit("current", Canonical(Matches).name)
    /\ AdvanceName
    /\ UNCHANGED <<inputVars, resp_seq, lookup_memo, pos, batches, requests,
                   lookups, report, run_no, prev>>
    /\ UNCHANGED readVars

\* Possibility 6: the name is not current; the point lookup is made inline
IsNotCurrent ==
    /\ pc = "batch"
    /\ Outcome(items, Species) = "not_current"

LookupEntry == [row |-> Len(results) + 1, id |-> Canonical(Matches).currentNameId]

NotCurrent ==
    /\ IsNotCurrent
    /\ \E resp \in LookupResponses :
        /\ LookupResponds(Canonical(Matches).currentNameId, resp)
        /\ resp.body # "garbage"
        /\ Emit("not_current", LookupName(resp, Canonical(Matches).currentNameId))
    /\ lookups' = Append(lookups, LookupEntry)
    /\ AdvanceName
    /\ UNCHANGED <<inputVars, resp_seq, pos, batches, requests, report,
                   run_no, prev>>
    /\ UNCHANGED readVars

\* LookupUnparseable that writes the rows collected so far before the run ends
LookupUnparseable_WritesPartial ==
    /\ IsNotCurrent
    /\ \E resp \in LookupResponses :
        /\ LookupResponds(Canonical(Matches).currentNameId, resp)
        /\ resp.body = "garbage"
    /\ lookups' = Append(lookups, LookupEntry)
    /\ report' = [written |-> TRUE, rows |-> results, run |-> run_no]
    /\ pc' = "aborted"
    /\ UNCHANGED <<inputVars, resp_seq, pos, species_batch, items, k, results,
                   summary, processed_count, batches, requests, progress,
                   run_no, prev>>
    /\ UNCHANGED readVars

\* response_current.json() raises on a body that is not JSON
LookupUnparseable ==
    /\ IsNotCurrent
    /\ \E resp \in LookupResponses :
        /\ LookupResponds(Canonical(Matches).currentNameId, resp)
        /\ resp.body = "garbage"
    /\ lookups' = Append(lookups, LookupEntry)
    /\ pc' = "aborted"
    /\ UNCHANGED <<inputVars, resp_seq, pos, species_batch, items, k, results,
                   summary, processed_count, batches, requests, progress,
                   report, run_no, prev>>
    /\ UNCHANGED readVars

\* a completed run is followed by the same command against the same authority
Rerun ==
    /\ pc = "done"
    /\ run_no = 1
    /\ prev' = [pc |-> pc, results |-> results, report |-> report]
    /\ run_no' = 2
    /\ pc' = "loop"
    /\ pos' = 0
    /\ species_batch' = <<>>
    /\ items' = <<>>
    /\ k' = 1
    /\ results' = <<>>
    /\ summary' = EmptySummary
    /\ processed_count' = 0
    /\ batches' = <<>>
    /\ requests' = <<>>
    /\ lookups' = <<>>
    /\ progress' = <<>>
    /\ UNCHANGED <<inputVars, resp_seq, lookup_memo, report>>
    /\ UNCHANGED readVars

Next ==
    \/ BatchSizeError
    \/ BatchError
    \/ BatchUnparseable
    \/ BatchReceived
    \/ WriteReport
    \/ NoMatch
    \/ MultipleRecords
    \/ MissingId
    \/ NoCurrent
    \/ IsCurrent
    \/ NotCurrent
    \/ LookupUnparseable

Spec == Init /\ [][Next]_vars

\* a run followed by one rerun of the same command
NextRerun ==
    \/ BatchSizeError
    \/ BatchError
    \/ BatchUnparseable
    \/ BatchReceived
    \/ WriteReport
    \/ NoMatch
    \/ MultipleRecords
    \/ MissingId
    \/ NoCurrent
    \/ IsCurrent
    \/ NotCurrent
    \/ LookupUnparseable
    \/ Rerun

SpecRerun == Init /\ [][NextRerun]_vars

(***************************************************************************)
(* Properties of read_species_list (checked under SpecRead).               *)
(***************************************************************************)
Range(s) == { s[i] : i \in 1..Len(s) }

BagOfSeq(s) == [x \in Range(s) |-> Cardinality({ i \in 1..Len(s) : s[i] = x })]

NoDuplicates(s) == \A i, j \in 1..Len(s) : s[i] = s[j] => i = j

\* the stripped non-blank lines among the lines the loop has consumed
StrippedLines == [i \in 1..line_no |-> Strip(input_lines[i])]

NonBlankLines == LET nonblank(l) == l # <<>> IN SelectSeq(StrippedLines, nonblank)

ExcludedNames == [i \in 1..Len(excluded_rows) |-> excluded_rows[i][1]]

RowsWithReason(r) == { i \in 1..Len(excluded_rows) : excluded_rows[i][2] = r }

\* C2: every non-blank line read so far has exactly one disposition: the
\* queried names and the excluded names together are, name for name, the
\* non-blank lines, and the two counters count the excluded rows by reason, so
\* len(queryList) + excluded_user_count + excluded_ambig_count is the number
\* of non-blank lines; at the return this covers the whole file.
C2_Partition ==
    /\ Len(species_to_check) + excluded_user_count + excluded_ambig_count
         = Len(NonBlankLines)
    /\ BagOfSeq(species_to_check) (+) BagOfSeq(ExcludedNames)
         = BagOfSeq(NonBlankLines)
    /\ excluded_user_count = Cardinality(RowsWithReason("user_excluded"))
    /\ excluded_ambig_count = Cardinality(RowsWithReason("ambiguous"))
    /\ Len(excluded_rows) = excluded_user_count + excluded_ambig_count
    /\ (rpc = "returned" => line_no = Len(input_lines))

\* a file with a blank line and one line of each disposition has been read
C2_Witness ==
    /\ rpc = "returned"
    /\ species_to_check # <<>>
    /\ excluded_user_count > 0
    /\ excluded_ambig_count > 0
    /\ Len(NonBlankLines) < Len(input_lines)

\* C8 as stated: the returned query list is in file order and holds no name
\* twice.
C8_UniqueInOrder ==
    rpc = "returned" =>
        /\ NoDuplicates(species_to_check)
        /\ \A i \in 1..Len(species_to_check) :
               \E j \in 1..Len(StrippedLines) :
                   StrippedLines[j] = species_to_check[i]

\* C8 amended: the query list is the accepted lines, stripped, in file order,
\* each as often as the file holds it (no de-duplication).
C8_AcceptedInOrder ==
    LET accepted(l) == l # <<>> /\ l \notin excluded_species /\ ~IsAmbiguous(l)
    IN  species_to_check = SelectSeq(StrippedLines, accepted)

\* a file that repeats an accepted name has been read to the end
C8_Witness ==
    /\ rpc = "returned"
    /\ ~NoDuplicates(species_to_check)
    /\ Len(species_to_check) >= 2

(***************************************************************************)
(* Properties of get_current_names_batch (checked under Spec, and under    *)
(* SpecRerun where a rerun is involved).                                   *)
(***************************************************************************)
RECURSIVE Concat(_)
Concat(ss) == IF ss = <<>> THEN <<>> ELSE Head(ss) \o Concat(Tail(ss))

\* Rows are appended in query-list order, so row i belongs to query i; its
\* batch is the one that holds position i.
BatchOfRow(i) == (i - 1) \div batch_size + 1

KindOfRow(i) == requests[BatchOfRow(i)].kind

\* the items the batch of row i was classified on
ItemsOfRow(i) ==
    IF KindOfRow(i) = "ok" THEN Answer(requests[BatchOfRow(i)].names) ELSE <<>>

MatchesOfRow(i) == SpeciesItems(ItemsOfRow(i), results[i].query)

\* row i was classified on a canonical match (one match, or several that agree)
HasCanonicalMatch(i) ==
    /\ KindOfRow(i) \in {"ok", "no_items"}
    /\ MatchesOfRow(i) # <<>>
    /\ SameCurrentId(MatchesOfRow(i))

LookupRows == { lookups[j].row : j \in 1..Len(lookups) }

OneRowPerQuery ==
    /\ Len(results) = Len(species_list)
    /\ \A i \in 1..Len(results) :
          /\ results[i].query = species_list[i]
          /\ results[i].status \in Statuses

\* C1 as stated: when the run completes, the results hold exactly one row per
\* query, in a status of the seven.
C1_OneRowPerQuery == pc = "done" => OneRowPerQuery

\* what holds of C1: the same for every batch size of at least 1
C1_ForPositiveBatchSize == (pc = "done" /\ batch_size >= 1) => OneRowPerQuery

\* C5 as stated: for every batch size, the batches batch() has produced when
\* the loop ends concatenate to the query list.
C5_BatchesCoverList == pc = "done" => Concat(batches) = species_list

\* what holds of C5: the same for every batch size of at least 1, and every
\* batch but the last has batch_size names
C5_ForPositiveBatchSize ==
    (pc = "done" /\ batch_size >= 1) =>
        /\ Concat(batches) = species_list
        /\ \A j \in 1..Len(batches) :
              /\ batches[j] # <<>>
              /\ (j < Len(batches) => Len(batches[j]) = batch_size)

\* the outcome of species had it been sent in a batch of its own
RefItems(q) == Answer(<<q>>)

RefStatus(q) == Outcome(RefItems(q), q)

RefName(q) ==
    LET c == Canonical(SpeciesItems(RefItems(q), q))
    IN  IF RefStatus(q) = "current" THEN c.name
        ELSE IF RefStatus(q) = "not_current"
             THEN LookupName(lookup_memo[c.currentNameId], c.currentNameId)
             ELSE NA

RowAsIfAlone(i) ==
    /\ results[i].status = RefStatus(results[i].query)
    /\ results[i].current_name = RefName(results[i].query)

\* C3 as stated: a name classified on an answered batch gets the status and
\* resolved name it gets in a batch of size 1, the authority answering each
\* filter with every record whose name starts with one of the batch's names.
C3_BatchSizeIndependent ==
    \A i \in 1..Len(results) : KindOfRow(i) = "ok" => RowAsIfAlone(i)

\* what holds of C3: the same when the authority's startWith ignores case
C3_WhenServerFoldsCase ==
    server_folds_case =>
        \A i \in 1..Len(results) : KindOfRow(i) = "ok" => RowAsIfAlone(i)

RowsOfBatch(j) ==
    ((j - 1) * batch_size + 1)..Min(j * batch_size, Len(species_list))

\* C4: a batch that is answered with a non-success status gives each of its
\* names the row (name, error, NA) and no point lookup; request j is for the
\* j-th chunk of the list, so no batch is requested twice; the failed batch
\* does not end the run, and a run that completes has classified every name.
C4_FailedBatch ==
    /\ \A j \in 1..Len(requests) :
          requests[j].names = Chunk(species_list, (j - 1) * batch_size, batch_size)
    /\ \A j \in 1..Len(requests) :
          requests[j].kind = "error" =>
              /\ \A i \in RowsOfBatch(j) :
                    /\ i <= Len(results)
                    /\ results[i] = Row(species_list[i], "error", NA)
                    /\ i \notin LookupRows
              /\ (pc = "aborted" => j < Len(requests))
              /\ (pc = "done" => OneRowPerQuery)
              /\ (pc = "loop" /\ j = Len(requests) => pos = Min(j * batch_size, Len(species_list)))

\* a run completed in which the first batch failed and a name of the second
\* batch was classified
C4_Witness ==
    /\ pc = "done"
    /\ Len(requests) >= 2
    /\ requests[1].kind = "error"
    /\ requests[2].kind = "ok"
    /\ results[Len(results)].status \in {"current", "not_current"}

LookupFailed(id) ==
    lookup_memo[id].status_code # 200 \/ lookup_memo[id].body # "named"

\* C6 as stated: a point lookup that fails leaves its name not_current with the
\* resolved name "<unknown>", and the run goes on.
C6_LookupFailureTolerated ==
    \A j \in 1..Len(lookups) :
        LookupFailed(lookups[j].id) =>
            /\ pc # "aborted"
            /\ lookups[j].row <= Len(results)
            /\ results[lookups[j].row].status = "not_current"
            /\ results[lookups[j].row].current_name = Unknown

\* what holds of C6: the same for a failed lookup whose body is a JSON object
C6_WhenBodyParses ==
    \A j \in 1..Len(lookups) :
        (LookupFailed(lookups[j].id) /\ lookup_memo[lookups[j].id].body # "garbage") =>
            /\ lookups[j].row <= Len(results)
            /\ results[lookups[j].row].status = "not_current"
            /\ results[lookups[j].row].current_name = Unknown

\* C7: the rows are in query-list order (row i is for query i), and the rerun
\* of a completed run on the same query list against the same authority
\* responses completes too and writes the same rows in the same order.
C7_SameRowsInOrder ==
    /\ \A i \in 1..Len(results) : results[i].query = species_list[i]
    /\ (run_no = 2 => pc # "aborted")
    /\ (run_no = 2 /\ pc = "done") =>
          /\ results = prev.results
          /\ report.run = 2
          /\ report.rows = prev.report.rows

\* a rerun completed with two rows of different queries, one of them resolved
\* by a point lookup
C7_Witness ==
    /\ run_no = 2
    /\ pc = "done"
    /\ Len(results) >= 2
    /\ results[1].query # results[2].query
    /\ lookups # <<>>

\* C9 as stated: a canonical match whose identifier equals its current-name
\* identifier gives status current, the queried string as resolved name, and
\* no point lookup.
C9_CurrentKeepsQuery ==
    \A i \in 1..Len(results) :
        (/\ HasCanonicalMatch(i)
         /\ Canonical(MatchesOfRow(i)).id # Missing
         /\ Canonical(MatchesOfRow(i)).id = Canonical(MatchesOfRow(i)).currentNameId) =>
            /\ results[i].status = "current"
            /\ results[i].current_name = results[i].query
            /\ i \notin LookupRows

\* what holds of C9: for a non-zero identifier, status current, the record's
\* own spelling of the name as resolved name, and no point lookup
C9_CurrentKeepsRecordName ==
    \A i \in 1..Len(results) :
        (/\ HasCanonicalMatch(i)
         /\ Canonical(MatchesOfRow(i)).id \notin {Missing, 0}
         /\ Canonical(MatchesOfRow(i)).id = Canonical(MatchesOfRow(i)).currentNameId) =>
            /\ results[i].status = "current"
            /\ results[i].current_name = Canonical(MatchesOfRow(i)).name
            /\ Lower(Strip(results[i].current_name)) = Lower(Strip(results[i].query))
            /\ i \notin LookupRows

\* C10 as stated: a canonical match whose identifier differs from its
\* current-name identifier gives status not_current and, as resolved name, the
\* name the point lookup of that identifier returned.
C10_NotCurrentResolved ==
    /\ \A i \in 1..Len(results) :
        (/\ HasCanonicalMatch(i)
         /\ Canonical(MatchesOfRow(i)).id # Missing
         /\ Canonical(MatchesOfRow(i)).currentNameId # Missing
         /\ Canonical(MatchesOfRow(i)).id # Canonical(MatchesOfRow(i)).currentNameId) =>
            /\ results[i].status = "not_current"
            /\ i \in LookupRows
            /\ (lookup_memo[Canonical(MatchesOfRow(i)).currentNameId].body = "named" =>
                  results[i].current_name =
                      AcceptedName[Canonical(MatchesOfRow(i)).currentNameId])
    /\ \A j \in 1..Len(lookups) :
          /\ lookups[j].row <= Len(results)
          /\ results[lookups[j].row].status = "not_current"

\* what holds of C10: the same for a current-name identifier other than 0
C10_WhenCurrentIdNonZero ==
    \A i \in 1..Len(results) :
        (/\ HasCanonicalMatch(i)
         /\ Canonical(MatchesOfRow(i)).id # Missing
         /\ Canonical(MatchesOfRow(i)).currentNameId \notin {Missing, 0}
         /\ Canonical(MatchesOfRow(i)).id # Canonical(MatchesOfRow(i)).currentNameId) =>
            /\ results[i].status = "not_current"
            /\ i \in LookupRows
            /\ (lookup_memo[Canonical(MatchesOfRow(i)).currentNameId].body = "named" =>
                  results[i].current_name =
                      AcceptedName[Canonical(MatchesOfRow(i)).currentNameId])

\* the matches m disagree on their current-name identifier
Disagree(m) ==
    \E a, b \in 1..Len(m) : m[a].currentNameId # m[b].currentNameId

MatchesDisagree(i) == Disagree(MatchesOfRow(i))

\* C11: a query with more than one match whose matches disagree on their
\* current-name identifier gets the row (query, multiple_records, NA), and no
\* point lookup is issued for it.
C11_MultipleRecords ==
    \A i \in 1..Len(results) :
        KindOfRow(i) = "ok" =>
            LET m == MatchesOfRow(i)
            IN  (Len(m) > 1 /\ Disagree(m)) =>
                    /\ results[i] = Row(species_list[i], "multiple_records", NA)
                    /\ i \notin LookupRows

\* a name with two matches of differing current-name identifiers was classified
C11_Witness ==
    \E i \in 1..Len(results) :
        /\ KindOfRow(i) = "ok"
        /\ Len(MatchesOfRow(i)) > 1
        /\ MatchesDisagree(i)
        /\ results[i].status = "multiple_records"

\* the line holds one of the markers '[', ']', 'sp.', 'cf.', 'aff.'
HasMarker(l) ==
    \/ \E i \in 1..Len(l) : l[i] = "[" \/ l[i] = "]"
    \/ \E i \in 1..(Len(l) - 2) :
          /\ l[i + 2] = "."
          /\ <<l[i], l[i + 1]>> \in { <<"s", "p">>, <<"c", "f">> }
    \/ \E i \in 1..(Len(l) - 3) : <<l[i], l[i + 1], l[i + 2], l[i + 3]>> = <<"a", "f", "f", ".">>

\* the disposition the rules give a non-blank line, applied in order
Disposition(l) ==
    IF l \in excluded_species THEN "user_excluded"
    ELSE IF HasMarker(l) THEN "ambiguous"
    ELSE "accepted"

\* C12: of the non-blank lines read so far, the query list is those the rules
\* accept and the excluded rows are the others, each with the reason of the
\* first rule that applies: user_excluded for a line on the user's list (also
\* when it holds a marker), else ambiguous for a line that holds a marker.
C12_RulesInOrder ==
    LET accepted(l) == Disposition(l) = "accepted"
        excluded(l) == Disposition(l) # "accepted"
        out == SelectSeq(NonBlankLines, excluded)
    IN  /\ species_to_check = SelectSeq(NonBlankLines, accepted)
        /\ excluded_rows = [i \in 1..Len(out) |-> <<out[i], Disposition(out[i])>>]

\* the file "a", "a sp.", "a [cf.]" was read with an empty exclusion list:
\* one name queried, two excluded as ambiguous
C12_Witness ==
    /\ rpc = "returned"
    /\ input_lines = << <<"a">>, <<"a", " ", "s", "p", ".">>,
                        <<"a", " ", "[", "c", "f", ".", "]">> >>
    /\ excluded_species = {}
    /\ species_to_check = << <<"a">> >>
    /\ excluded_ambig_count = 2
    /\ excluded_user_count = 0

\* row i was classified on a batch response with status 200
Answered(i) == KindOfRow(i) \in {"ok", "no_items"}

\* a record of the batch response of row i has the query's name, compared as
\* the matches are (stripped, case-insensitive), under any status
ListedAsMatched(i) ==
    \E n \in 1..Len(ItemsOfRow(i)) :
        Lower(Strip(ItemsOfRow(i)[n].name)) = Lower(Strip(results[i].query))

\* the same with the comparison the code makes for no_valid (not stripped)
ListedUnstripped(i) ==
    \E n \in 1..Len(ItemsOfRow(i)) :
        Lower(ItemsOfRow(i)[n].name) = Lower(results[i].query)

\* C13 as stated: a query without matches in an answered batch is no_valid
\* exactly when a record of the batch response has its name, compared the way
\* the matches are, and no_records exactly when none has; resolved name NA.
C13_NoValidOrNoRecords ==
    \A i \in 1..Len(results) :
        (Answered(i) /\ MatchesOfRow(i) = <<>>) =>
            /\ results[i].status = IF ListedAsMatched(i) THEN "no_valid" ELSE "no_records"
            /\ results[i].current_name = NA

\* what holds of C13: the same with the record names compared unstripped
C13_ComparedUnstripped ==
    \A i \in 1..Len(results) :
        (Answered(i) /\ MatchesOfRow(i) = <<>>) =>
            /\ results[i].status = IF ListedUnstripped(i) THEN "no_valid" ELSE "no_records"
            /\ results[i].current_name = NA

\* the row the record `first` alone gives the query
FirstAloneStatus(first, query) == Outcome(<<first>>, query)

FirstAloneName(first, query) ==
    LET st == FirstAloneStatus(first, query)
    IN  IF st = "current" THEN first.name
        ELSE IF st = "not_current"
             THEN LookupName(lookup_memo[first.currentNameId], first.currentNameId)
             ELSE NA

\* C14: a query with more than one match, all of the same current-name
\* identifier, is not multiple_records: its status is no_current, current or
\* not_current and, with its resolved name, is what the first match of the
\* response alone gives.
C14_AgreeingMatches ==
    \A i \in 1..Len(results) :
        KindOfRow(i) = "ok" =>
            LET m == MatchesOfRow(i)
            IN  (Len(m) > 1 /\ ~Disagree(m)) =>
                    /\ results[i].status \in {"no_current", "current", "not_current"}
                    /\ results[i].status = FirstAloneStatus(m[1], results[i].query)
                    /\ results[i].current_name = FirstAloneName(m[1], results[i].query)

\* a name was classified on two agreeing matches of different identifiers,
\* the first of which is not current
C14_Witness ==
    \E i \in 1..Len(results) :
        /\ KindOfRow(i) = "ok"
        /\ Len(MatchesOfRow(i)) > 1
        /\ ~MatchesDisagree(i)
        /\ MatchesOfRow(i)[1].id # MatchesOfRow(i)[2].id
        /\ results[i].status = "not_current"

\* row i was classified on a canonical match: its first match, the matches
\* agreeing on their current-name identifier
OnCanonical(i) ==
    /\ Answered(i)
    /\ MatchesOfRow(i) # <<>>
    /\ ~MatchesDisagree(i)

\* C15 as stated: a query is no_current exactly when it has a canonical match
\* that carries no current-name identifier; a canonical match that carries
\* one, whatever its value, is never no_current.
C15_NoCurrentIffAbsent ==
    \A i \in 1..Len(results) :
        Answered(i) =>
            /\ (results[i].status = "no_current") <=>
                   (OnCanonical(i) /\ MatchesOfRow(i)[1].currentNameId = Missing)
            /\ (results[i].status = "no_current" => results[i].current_name = NA)

\* what holds of C15: no_current exactly when the canonical match's
\* current-name identifier is absent or 0
C15_NoCurrentIffFalsy ==
    \A i \in 1..Len(results) :
        Answered(i) =>
            /\ (results[i].status = "no_current") <=>
                   (OnCanonical(i) /\ MatchesOfRow(i)[1].currentNameId \in {Missing, 0})
            /\ (results[i].status = "no_current" => results[i].current_name = NA)

\* the lookups made so far: one per name, in the order of the names, each for
\* a name whose status is not_current (the last possibly for the name whose
\* lookup ended the run), and every not_current row has its lookup
LookupsMatchNotCurrent ==
    /\ \A j \in 1..Len(lookups) :
        /\ (j > 1 => lookups[j - 1].row < lookups[j].row)
        /\ IF lookups[j].row <= Len(results)
           THEN results[lookups[j].row].status = "not_current"
           ELSE /\ lookups[j].row = Len(results) + 1
                /\ pc = "aborted"
                /\ Outcome(items, Species) = "not_current"
    /\ \A i \in 1..Len(results) :
        results[i].status = "not_current" => i \in LookupRows

\* a step that makes a lookup makes one, for the name being classified, in the
\* batch requested last and before any other request; the name then gets its
\* not_current row or the run ends
LookupIsInline ==
    lookups' # lookups =>
        /\ Len(lookups') = Len(lookups) + 1
        /\ SubSeq(lookups', 1, Len(lookups)) = lookups
        /\ lookups'[Len(lookups')].row = Len(results) + 1
        /\ BatchOfRow(Len(results) + 1) = Len(requests)
        /\ requests[Len(requests)].kind = "ok"
        /\ requests' = requests
        /\ \/ /\ Len(results') = Len(results) + 1
              /\ results'[Len(results')].status = "not_current"
           \/ /\ results' = results
              /\ pc' = "aborted"

\* C16: point lookups correspond one to one with not_current classifications:
\* one lookup per name classified not_current, made after that name's batch
\* response and before the next name is classified or the next batch is
\* requested, never a second one for the same name, and none for a name of
\* any other status.
C16_LookupsInline == [](LookupsMatchNotCurrent) /\ [][LookupIsInline]_vars

\* a finished run with a not_current name that was looked up and a current
\* name that was not
C16_Witness ==
    /\ pc = "done"
    /\ \E i, j \in 1..Len(results) :
        /\ results[i].status = "not_current"
        /\ i \in LookupRows
        /\ results[j].status = "current"
        /\ j \notin LookupRows

\* the number of result rows with status st
RowsWithStatus(st) == Len(SelectSeq(results, LAMBDA r : r.status = st))

RECURSIVE SummaryTotal(_)
SummaryTotal(S) ==
    IF S = {} THEN 0
    ELSE LET st == CHOOSE x \in S : TRUE
         IN  summary[st] + SummaryTotal(S \ {st})

\* the counters agree with the rows produced so far
SummaryInStep ==
    /\ \A st \in Statuses : summary[st] = RowsWithStatus(st)
    /\ processed_count = Len(results)
    /\ processed_count <= Len(species_list)
    /\ \A n \in 1..Len(progress) : progress[n] <= Len(species_list)

\* C17 as stated: after each name the summary counts the result rows of each
\* status, processed_count is the number of result rows and never exceeds the
\* total query count; at completion processed_count equals the total query
\* count and the summary counts sum to it.
C17_SummaryInStep ==
    /\ SummaryInStep
    /\ pc = "done" =>
        /\ processed_count = Len(species_list)
        /\ SummaryTotal(Statuses) = Len(species_list)

\* what holds of C17: the counters are in step in every state, and complete at
\* the end of a run of positive batch size
C17_ForPositiveBatchSize ==
    /\ SummaryInStep
    /\ (pc = "done" /\ batch_size >= 1) =>
        /\ processed_count = Len(species_list)
        /\ SummaryTotal(Statuses) = Len(species_list)

\* the report exists exactly in a completed run and holds its result rows, a
\* row for every query if it holds any; an aborted run leaves none; an empty
\* query list makes no request, classifies nothing, ends without a report
\* only on a negative batch size, and its report has no row
ReportOnlyWhenDone ==
    /\ report.written <=> pc = "done"
    /\ report.written =>
        /\ report.rows = results
        /\ NextChunk = <<>>
        /\ species_batch = <<>>
        /\ (report.rows # <<>> => Len(report.rows) = Len(species_list))
    /\ pc = "aborted" => report = NoReport
    /\ species_list = <<>> =>
        /\ requests = <<>>
        /\ pc # "batch"
        /\ (pc = "aborted" => batch_size < 0)
        /\ (pc = "loop" /\ batch_size >= 0 => NextChunk = <<>>)
        /\ (report.written => report.rows = <<>>)

\* a step that writes the report is the first to write it, and is taken from
\* the for loop when the generator has no chunk left
ReportWrittenOnce ==
    report' # report =>
        /\ ~report.written
        /\ report'.written
        /\ pc = "loop"
        /\ pc' = "done"
        /\ NextChunk = <<>>
        /\ results' = results
        /\ report'.rows = results

====
